---- MODULE Spec2Model ----
(***************************************************************************)
(* The Drive-backed document store of wecare-app: GoogleDriveService       *)
(* (folder provisioning, upload with sidecar, listing with reconciliation, *)
(* metadata update, deletion) running against a model of the storage       *)
(* provider.  Every public method is one action; the remote requests a     *)
(* method issues are threaded through a call context `c`, so that the      *)
(* order of the requests, the point where one of them fails, and the       *)
(* assignments made before the failure are those of the code.              *)
(***************************************************************************)
EXTENDS Integers, Sequences, FiniteSets, TLC

(***************************************************************************)
(* Bounds of the model.                                                    *)
(***************************************************************************)
\* identifiers the provider hands out (folders, content files, sidecars)
MaxIds == 7
\* readings of the clock (new Date()) are 0..MaxClock
MaxClock == 1
\* requests of one call that may be answered abnormally
MaxFaults == 1

(***************************************************************************)
(* Program constants.                                                      *)
(***************************************************************************)
\* `null` of the token and of the four cached folder identifiers
Null == 0
\* the provider's alias 'root' for the top of the drive
DriveRoot == -1
MAX_FILE_SIZE == 100 * 1024 * 1024

\* A name of a drive object: a plain string, or `${fileId}_metadata.json`.
PlainName(s) == [s |-> s, n |-> 0]
MetadataFileName(fileId) == [s |-> "_metadata.json", n |-> fileId]

ROOT_FOLDER_NAME == PlainName("wecare")
DOCS_FOLDER_NAME == PlainName("docs")
METADATA_FOLDER_NAME == PlainName("metadata")
SETTINGS_FOLDER_NAME == PlainName("settings")
FolderMimeType == "application/vnd.google-apps.folder"

(***************************************************************************)
(* Inputs.                                                                 *)
(***************************************************************************)
Tokens == {1}
FileNames == {"report.pdf"}
FileSizes == {MAX_FILE_SIZE, MAX_FILE_SIZE + 1}
FileType == "application/pdf"

\* How the provider answers one request: normally; with a non-success
\* status (the request has no effect); or, for an upload, with a success
\* status and a receipt that carries no id (the upload has its effect).
FaultKinds == {"status", "noId"}
RECURSIVE FaultSetsUpTo(_, _)
FaultSetsUpTo(k, points) ==
    IF k = 0 THEN {{}}
    ELSE LET S == FaultSetsUpTo(k - 1, points)
         IN  S \cup UNION { { F \cup {p} :
                                p \in { q \in points :
                                          \A a \in F : a[1] < q[1] } } :
                            F \in S }
\* at most MaxFaults faults among the first n requests of a call, no two at
\* one position
FaultSets(n) == FaultSetsUpTo(MaxFaults, (1..n) \X FaultKinds)

VARIABLES
    drive,             \* the provider's objects, in enumeration order
    nextId,            \* next identifier the provider assigns
    now,               \* the clock
    accessToken,       \* GoogleDriveService fields
    rootFolderId,
    docsFolderId,
    metadataFolderId,
    settingsFolderId,
    last,              \* the call that just finished: what it returned or
                       \* threw, until its caller has taken the result
    prevInit,          \* identifiers of this session's latest successful
                       \* initializeFolderStructure, <<>> when there is none
    justUploaded,      \* the fileId the call before this one returned, when
                       \* that call was a successful uploadFile; else Null
    auth,              \* AuthProvider: AsyncStorage and the React state
    inFlight           \* the calls that are awaiting a response, when calls
                       \* are let to overlap

vars == <<drive, nextId, now, accessToken, rootFolderId, docsFolderId,
          metadataFolderId, settingsFolderId, last, prevInit, justUploaded,
          auth, inFlight>>

(***************************************************************************)
(* The call context: the service's fields and the provider's state as one  *)
(* call sees and changes them, the requests it has sent, the error it has  *)
(* thrown (<<>>: none; outermost message first), the value returned by the *)
(* step just taken, and the four identifiers a folder initialization of    *)
(* this call resolved (<<>>: none did).                                    *)
(***************************************************************************)
NoErr == <<>>
Failed(c) == c.err # NoErr
Throw(c, msg) == [c EXCEPT !.err = <<msg>>]
Rethrow(c, prefix) == [c EXCEPT !.err = <<prefix>> \o @]
Return(c, v) == [c EXCEPT !.ret = v]

Enter(faults) ==
    [drive |-> drive, nextId |-> nextId, now |-> now,
     accessToken |-> accessToken,
     rootFolderId |-> rootFolderId, docsFolderId |-> docsFolderId,
     metadataFolderId |-> metadataFolderId,
     settingsFolderId |-> settingsFolderId,
     resolved |-> <<>>,
     reqs |-> <<>>, faults |-> faults, err |-> NoErr, ret |-> Null]

\* the provider's answer to the request sent last
Answer(c) ==
    LET hit == { f \in c.faults : f[1] = Len(c.reqs) }
    IN  IF hit = {} THEN "ok" ELSE (CHOOSE f \in hit : TRUE)[2]

\* A request: what it is for, and the content file it concerns (Null: none).
Req(kind, fileId) == [kind |-> kind, of |-> fileId]

\* fetch(url, options): the request goes out whatever the token is
fetch(c, req) == [c EXCEPT !.reqs = Append(@, req)]

\* makeRequest, up to the parsing of the body
makeRequest_afterFetch(r) ==
    IF Answer(r) = "status" THEN Throw(r, "Google Drive API error") ELSE r

makeRequest(c, req) ==
    IF c.accessToken = Null
    THEN Throw(c, "No access token available")
    ELSE makeRequest_afterFetch(fetch(c, req))

\* The body of a stored file: JSON text, kept as the value it parses to,
\* or bytes that are no JSON.
JsonBody(value) == [json |-> value]
UnreadableBody == [bytes |-> "unreadable"]
\* makeRequest, the parsing of the body of a request that is neither DELETE
\* nor PATCH: response.json(), or the marker when the body is not JSON
SuccessMarker == [success |-> TRUE]
ResponseJson(body) ==
    IF "json" \in DOMAIN body THEN body.json ELSE SuccessMarker

(***************************************************************************)
(* The provider.                                                           *)
(***************************************************************************)
\* files?q=name='..' and '..' in parents and trashed=false
Search(d, name, parent) ==
    SelectSeq(d, LAMBDA o : o.name = name /\ o.parent = parent)
\* files?q='..' in parents and trashed=false
Children(d, parent) == SelectSeq(d, LAMBDA o : o.parent = parent)
Exists(d, id) == \E i \in 1..Len(d) : d[i].id = id
Remove(d, id) == SelectSeq(d, LAMBDA o : o.id # id)
Object(d, id) == d[CHOOSE i \in 1..Len(d) : d[i].id = id]

\* PATCH {name}: the object `id` under its new name, the order kept
RECURSIVE Renamed(_, _, _)
Renamed(d, id, name) ==
    IF d = <<>> THEN <<>>
    ELSE <<IF Head(d).id = id THEN [Head(d) EXCEPT !.name = name] ELSE Head(d)>>
         \o Renamed(Tail(d), id, name)

\* the object `id` with its content replaced, the order kept
RECURSIVE Rewritten(_, _, _)
Rewritten(d, id, body) ==
    IF d = <<>> THEN <<>>
    ELSE <<IF Head(d).id = id THEN [Head(d) EXCEPT !.body = body] ELSE Head(d)>>
         \o Rewritten(Tail(d), id, body)

IsFolder(o) == o.mimeType = FolderMimeType
IsSidecar(o) == "body" \in DOMAIN o
IsContent(o) == "size" \in DOMAIN o
ContentIds == { drive[i].id : i \in { k \in 1..Len(drive) : IsContent(drive[k]) } }
SidecarIds == { drive[i].id : i \in { k \in 1..Len(drive) : IsSidecar(drive[k]) } }

\* POST: the provider stores the object under a fresh identifier
Create(c, obj) ==
    [c EXCEPT !.drive = Append(@, [obj EXCEPT !.id = c.nextId]),
              !.nextId = @ + 1,
              !.ret = c.nextId]

(***************************************************************************)
(* findOrCreateFolder / initializeFolderStructure.  A method that awaits   *)
(* is written as its steps: `m_afterX(c, ..)` is what m does once the      *)
(* step X it awaited has left the context c.                               *)
(***************************************************************************)
\* parentId ? `'${parentId}' in parents` : `'root' in parents`
FolderParent(parentId) == IF parentId # Null THEN parentId ELSE DriveRoot

findOrCreateFolder_afterCreate(p, folderName, parentId) ==
    IF Failed(p) THEN p
    ELSE Create(p, [id |-> Null, name |-> folderName,
                    parent |-> FolderParent(parentId),
                    mimeType |-> FolderMimeType])

\* mutant: the search query names 'root' as the parent whatever parentId is
findOrCreateFolder_afterSearch_AtTop(s, folderName, parentId) ==
    LET found == Search(s.drive, folderName, DriveRoot)
    IN  IF Failed(s) THEN s
        ELSE IF Len(found) > 0 THEN Return(s, found[1].id)
        ELSE findOrCreateFolder_afterCreate(
                 makeRequest(s, Req("createFolder", Null)),
                 folderName, parentId)

findOrCreateFolder_afterSearch(s, folderName, parentId) ==
    LET found == Search(s.drive, folderName, FolderParent(parentId))
    IN  IF Failed(s) THEN s
        ELSE IF Len(found) > 0 THEN Return(s, found[1].id)
        ELSE findOrCreateFolder_afterCreate(
                 makeRequest(s, Req("createFolder", Null)),
                 folderName, parentId)

findOrCreateFolder(c, folderName, parentId) ==
    findOrCreateFolder_afterSearch(makeRequest(c, Req("searchFolder", Null)),
                                   folderName, parentId)

\* catch (error) of initializeFolderStructure
initializeFolderStructure_catch(x) ==
    Rethrow(x, "Failed to initialize folder structure")

initializeFolderStructure_afterSettings(s) ==
    IF Failed(s) THEN initializeFolderStructure_catch(s)
    ELSE Return([s EXCEPT !.settingsFolderId = s.ret,
                          !.resolved = <<s.rootFolderId, s.docsFolderId,
                                         s.metadataFolderId, s.ret>>],
                TRUE)

initializeFolderStructure_afterMetadata(m) ==
    IF Failed(m) THEN initializeFolderStructure_catch(m)
    ELSE initializeFolderStructure_afterSettings(
             findOrCreateFolder([m EXCEPT !.metadataFolderId = m.ret],
                                SETTINGS_FOLDER_NAME, m.rootFolderId))

initializeFolderStructure_afterDocs(d) ==
    IF Failed(d) THEN initializeFolderStructure_catch(d)
    ELSE initializeFolderStructure_afterMetadata(
             findOrCreateFolder([d EXCEPT !.docsFolderId = d.ret],
                                METADATA_FOLDER_NAME, d.rootFolderId))

initializeFolderStructure_afterRoot(r) ==
    IF Failed(r) THEN initializeFolderStructure_catch(r)
    ELSE initializeFolderStructure_afterDocs(
             findOrCreateFolder([r EXCEPT !.rootFolderId = r.ret],
                                DOCS_FOLDER_NAME, r.ret))

initializeFolderStructure(c) ==
    IF c.accessToken = Null
    THEN initializeFolderStructure_catch(
             Throw(c, "No access token available for folder initialization"))
    ELSE initializeFolderStructure_afterRoot(
             findOrCreateFolder(c, ROOT_FOLDER_NAME, Null))

(***************************************************************************)
(* JavaScript values                                                       *)
(***************************************************************************)
\* `undefined` of an optional string field, and `null` of a return value
Undefined == "\\undefined"
JsNull == [null |-> TRUE]
IsNull(v) == DOMAIN v = {"null"}
EmptyPartial == [f \in {} |-> Undefined]
Get(obj, f) == IF f \in DOMAIN obj THEN obj[f] ELSE Undefined
\* truthiness of a string-valued expression
Truthy(v) == v # Undefined /\ v # ""
OptionalStrings == {"description", "category"}
\* JSON.stringify: members whose value is undefined are left out
JSONstringify(obj) ==
    LET kept == { f \in DOMAIN obj :
                    ~(f \in OptionalStrings /\ obj[f] = Undefined) }
    IN  JsonBody([f \in kept |-> obj[f]])
\* Timestamps.  new Date().toISOString() is a reading of this device's
\* clock; the createdTime and modifiedTime the provider reports for an object
\* are readings of the provider's clock, known only as "the time it gave
\* object id".
toISOString(t) == [clock |-> "device", at |-> t]
ProviderTime(attribute, id) == [clock |-> attribute, at |-> id]

\* {...a, ...b}
Spread(a, b) ==
    [f \in DOMAIN a \cup DOMAIN b |-> IF f \in DOMAIN b THEN b[f] ELSE a[f]]

(***************************************************************************)
(* saveMetadata / getFileMetadata                                          *)
(***************************************************************************)
\* the sidecar of a content file as the provider stores it
SidecarFile(fileId, parent, metadata) ==
    [id |-> Null, name |-> MetadataFileName(fileId), parent |-> parent,
     mimeType |-> "application/json", body |-> JSONstringify(metadata)]

saveMetadata_afterFetch(f, fileId, metadata) ==
    IF Answer(f) = "status" THEN Throw(f, "Failed to save metadata")
    ELSE IF Answer(f) = "noId"
    THEN Return(Create(f, SidecarFile(fileId, f.metadataFolderId, metadata)),
                Null)
    ELSE Create(f, SidecarFile(fileId, f.metadataFolderId, metadata))

saveMetadata(c, fileId, metadata) ==
    IF c.metadataFolderId = Null
    THEN Throw(c, "Metadata folder not initialized")
    ELSE saveMetadata_afterFetch(fetch(c, Req("uploadSidecar", fileId)),
                                 fileId, metadata)

\* catch (error) of getFileMetadata
getFileMetadata_catch(x) == Rethrow(x, "Failed to get file metadata")

getFileMetadata_afterDownload(g, body) ==
    IF Failed(g) THEN getFileMetadata_catch(g)
    ELSE Return(g, ResponseJson(body))

getFileMetadata_afterSearch(s, fileId) ==
    LET found == Search(s.drive, MetadataFileName(fileId), s.metadataFolderId)
    IN  IF Failed(s) THEN getFileMetadata_catch(s)
        ELSE IF Len(found) = 0 THEN Return(s, JsNull)
        ELSE getFileMetadata_afterDownload(
                 makeRequest(s, Req("downloadSidecar", fileId)),
                 found[1].body)

getFileMetadata(c, fileId) ==
    IF c.metadataFolderId = Null
    THEN getFileMetadata_catch(Throw(c, "Metadata folder not initialized"))
    ELSE getFileMetadata_afterSearch(
             makeRequest(c, Req("searchSidecar", fileId)), fileId)

(***************************************************************************)
(* uploadFile.  `file` is the payload's [name, type, size].                *)
(***************************************************************************)
\* the FileMetadata that uploadFile writes to the sidecar
\* mutant: the record does not take the identifier of the upload receipt
fileMetadataObj_NoId(fileId, file, metadata, t) ==
    [id |-> Null,
     name |-> file.name,
     mimeType |-> file.type,
     size |-> file.size,
     createdTime |-> toISOString(t),
     modifiedTime |-> toISOString(t),
     description |-> Get(metadata, "description"),
     tags |-> IF "tags" \in DOMAIN metadata THEN metadata.tags ELSE <<>>,
     category |-> Get(metadata, "category")]

fileMetadataObj(fileId, file, metadata, t) ==
    [id |-> fileId,
     name |-> file.name,
     mimeType |-> file.type,
     size |-> file.size,
     createdTime |-> toISOString(t),
     modifiedTime |-> toISOString(t),
     description |-> Get(metadata, "description"),
     tags |-> IF "tags" \in DOMAIN metadata THEN metadata.tags ELSE <<>>,
     category |-> Get(metadata, "category")]

\* the content file as the provider stores it
fileMetadata(file, metadata, parent) ==
    [id |-> Null,
     name |-> PlainName(IF Truthy(Get(metadata, "documentName"))
                        THEN metadata.documentName ELSE file.name),
     parent |-> parent,
     mimeType |-> file.type,
     size |-> file.size]

\* catch (error) of uploadFile
uploadFile_catch(x) == Rethrow(x, "Upload failed")

\* mutant: a failed sidecar write removes the content file again
uploadFile_afterSave_Rollback(m, fileId) ==
    IF Failed(m)
    THEN uploadFile_catch([m EXCEPT !.drive = Remove(@, fileId)])
    ELSE Return(m, [success |-> TRUE, fileId |-> fileId,
                    metadataId |-> m.ret])

uploadFile_afterSave(m, fileId) ==
    IF Failed(m) THEN uploadFile_catch(m)
    ELSE Return(m, [success |-> TRUE, fileId |-> fileId,
                    metadataId |-> m.ret])

\* the provider has stored the file as p.ret and sent its receipt
uploadFile_afterReceipt(p, answer, file, metadata) ==
    IF answer = "noId"
    THEN uploadFile_catch(Throw(p, "Upload response missing file ID"))
    ELSE uploadFile_afterSave(
             saveMetadata(p, p.ret,
                          fileMetadataObj(p.ret, file, metadata, p.now)),
             p.ret)

uploadFile_afterFetch(u, file, metadata) ==
    IF Answer(u) = "status"
    THEN uploadFile_catch(Throw(u, "Upload failed: status"))
    ELSE uploadFile_afterReceipt(
             Create(u, fileMetadata(file, metadata, u.docsFolderId)),
             Answer(u), file, metadata)

uploadFile_afterInit(i, file, metadata) ==
    IF Failed(i) THEN uploadFile_catch(i)
    ELSE IF file.size > MAX_FILE_SIZE
    THEN Return(i, [success |-> FALSE,
                    error |-> "File size exceeds limit of 100MB"])
    ELSE uploadFile_afterFetch(fetch(i, Req("uploadContent", Null)),
                               file, metadata)

uploadFile(c, file, metadata) ==
    uploadFile_afterInit(IF c.docsFolderId = Null
                         THEN initializeFolderStructure(c) ELSE c,
                         file, metadata)

(***************************************************************************)
(* validateToken / listFiles                                               *)
(***************************************************************************)
\* mutant: any answer of the provider counts as a valid token
validateToken_IgnoreStatus(c) ==
    IF c.accessToken = Null THEN Return(c, FALSE)
    ELSE Return(fetch(c, Req("validate", Null)), TRUE)

validateToken(c) ==
    IF c.accessToken = Null THEN Return(c, FALSE)
    ELSE LET f == fetch(c, Req("validate", Null))
         IN  Return(f, Answer(f) # "status")

\* the attributes the enumeration reports for a content file; the provider
\* reports view links (`links`) or leaves them out
NativeFile(o, links) ==
    [id |-> o.id, name |-> o.name.s, mimeType |-> o.mimeType, size |-> o.size,
     createdTime |-> ProviderTime("createdTime", o.id),
     modifiedTime |-> ProviderTime("modifiedTime", o.id),
     webViewLink |-> links]

\* file.webViewLink || `https://drive.google.com/file/d/${file.id}/view`
FileUrl(file) ==
    IF file.webViewLink THEN [link |-> "webViewLink", id |-> file.id]
    ELSE [link |-> "drive.google.com/file/d", id |-> file.id]

\* file.size || 0
OrZero(size) == IF size # 0 THEN size ELSE 0

\* mutant: the fallback record is left without the placeholder category
fallbackMetadata_NoCategory(file) ==
    [id |-> file.id, name |-> file.name, mimeType |-> file.mimeType,
     size |-> file.size, createdTime |-> file.createdTime,
     modifiedTime |-> file.modifiedTime, description |-> "",
     tags |-> <<>>, category |-> "", fileUrl |-> FileUrl(file)]

fallbackMetadata(file) ==
    [id |-> file.id, name |-> file.name, mimeType |-> file.mimeType,
     size |-> OrZero(file.size), createdTime |-> file.createdTime,
     modifiedTime |-> file.modifiedTime, description |-> "",
     tags |-> <<>>, category |-> "others", fileUrl |-> FileUrl(file)]

\* mutant: no try/catch around the sidecar lookup of one file
listOne_afterGet_NoCatch(g, file) ==
    IF Failed(g) THEN g
    ELSE IF ~IsNull(g.ret)
    THEN Return(g, Spread(g.ret, [fileUrl |-> FileUrl(file)]))
    ELSE Return(g, fallbackMetadata(file))

listOne_afterGet(g, file) ==
    IF Failed(g)
    THEN Return([g EXCEPT !.err = NoErr], fallbackMetadata(file))
    ELSE IF ~IsNull(g.ret)
    THEN Return(g, Spread(g.ret, [fileUrl |-> FileUrl(file)]))
    ELSE Return(g, fallbackMetadata(file))

\* one turn of the loop over response.files
listOne(c, file) == listOne_afterGet(getFileMetadata(c, file.id), file)

\* mutant: each record is put in front of the records collected so far
RECURSIVE listLoop_Unshift(_, _, _)
listLoop_Unshift(c, responseFiles, files) ==
    IF responseFiles = <<>> THEN Return(c, files)
    ELSE LET one == listOne(c, Head(responseFiles))
         IN  listLoop_Unshift(one, Tail(responseFiles), <<one.ret>> \o files)

RECURSIVE listLoop(_, _, _)
listLoop(c, responseFiles, files) ==
    IF responseFiles = <<>> THEN Return(c, files)
    ELSE LET one == listOne(c, Head(responseFiles))
         IN  listLoop(one, Tail(responseFiles), Append(files, one.ret))

RECURSIVE EnumerationResponse(_, _)
EnumerationResponse(objects, links) ==
    IF objects = <<>> THEN <<>>
    ELSE <<NativeFile(Head(objects), links)>>
         \o EnumerationResponse(Tail(objects), links)

listFiles_afterEnumerate(e, links) ==
    IF Failed(e) THEN e
    ELSE listLoop(e,
                  EnumerationResponse(Children(e.drive, e.docsFolderId), links),
                  <<>>)

listFiles_afterInit(i, links) ==
    IF Failed(i) THEN i
    ELSE listFiles_afterEnumerate(makeRequest(i, Req("enumerate", Null)),
                                  links)

listFiles_afterValidate(v, links) ==
    IF ~v.ret
    THEN Throw(v, "Access token is expired or invalid. Please log in again.")
    ELSE listFiles_afterInit(IF v.docsFolderId = Null
                             THEN initializeFolderStructure(v) ELSE v,
                             links)

listFiles(c, links) ==
    IF c.accessToken = Null THEN Throw(c, "No access token available")
    ELSE listFiles_afterValidate(validateToken(c), links)

(***************************************************************************)
(* deleteFile / updateFileName / updateMetadata                            *)
(***************************************************************************)
\* makeRequest with method DELETE: an unknown identifier is a 404
deleteRequest_afterRequest(r, id) ==
    IF Failed(r) THEN r
    ELSE IF ~Exists(r.drive, id) THEN Throw(r, "Google Drive API error")
    ELSE [r EXCEPT !.drive = Remove(@, id)]

deleteRequest(c, id, req) == deleteRequest_afterRequest(makeRequest(c, req), id)

\* catch (error) of deleteFile
deleteFile_catch(x) == Rethrow(x, "Failed to delete file")

deleteFile_afterDeleteSidecar(x) ==
    IF Failed(x) THEN deleteFile_catch(x) ELSE Return(x, TRUE)

\* mutant: the sidecar that the search found is left in place
deleteFile_afterSearch_KeepSidecar(s, fileId) ==
    IF Failed(s) THEN deleteFile_catch(s) ELSE Return(s, TRUE)

deleteFile_afterSearch(s, fileId) ==
    LET found == Search(s.drive, MetadataFileName(fileId), s.metadataFolderId)
    IN  IF Failed(s) THEN deleteFile_catch(s)
        ELSE IF Len(found) = 0 THEN Return(s, TRUE)
        ELSE deleteFile_afterDeleteSidecar(
                 deleteRequest(s, found[1].id, Req("deleteSidecar", fileId)))

\* mutant: a failed DELETE of the content file is ignored
deleteFile_afterDelete_Continue(d, fileId) ==
    IF d.metadataFolderId = Null THEN Return(d, TRUE)
    ELSE deleteFile_afterSearch(
             makeRequest([d EXCEPT !.err = NoErr],
                         Req("searchSidecar", fileId)),
             fileId)

deleteFile_afterDelete(d, fileId) ==
    IF Failed(d) THEN deleteFile_catch(d)
    ELSE IF d.metadataFolderId = Null THEN Return(d, TRUE)
    ELSE deleteFile_afterSearch(makeRequest(d, Req("searchSidecar", fileId)),
                                fileId)

deleteFile(c, fileId) ==
    IF c.accessToken = Null THEN Return(c, FALSE)
    ELSE deleteFile_afterDelete(
             deleteRequest(c, fileId, Req("deleteContent", fileId)), fileId)

\* catch (error) of updateFileName
updateFileName_catch(x) == Rethrow(x, "Failed to update file name")

updateFileName_afterRequest(r, fileId, newName) ==
    IF Failed(r) THEN updateFileName_catch(r)
    ELSE IF ~Exists(r.drive, fileId)
    THEN updateFileName_catch(Throw(r, "Google Drive API error"))
    ELSE Return([r EXCEPT !.drive = Renamed(@, fileId, PlainName(newName))],
                TRUE)

updateFileName(c, fileId, newName) ==
    updateFileName_afterRequest(makeRequest(c, Req("patchName", fileId)),
                                fileId, newName)

\* catch (error) of updateMetadata
updateMetadata_catch(x) == Rethrow(x, "Failed to update metadata")

updateMetadata_afterFetch(f, fileId, updatedMetadata) ==
    IF Answer(f) = "status"
    THEN updateMetadata_catch(Throw(f, "Failed to update metadata: status"))
    ELSE Return(Create(f, SidecarFile(fileId, f.metadataFolderId,
                                      updatedMetadata)),
                TRUE)

updateMetadata_afterDelete(d, fileId, updatedMetadata) ==
    IF Failed(d) THEN updateMetadata_catch(d)
    ELSE updateMetadata_afterFetch(fetch(d, Req("uploadSidecar", fileId)),
                                   fileId, updatedMetadata)

\* mutant: the old sidecar is not deleted before the new one is written
updateMetadata_afterSearch_KeepOld(s, fileId, updatedMetadata) ==
    IF Failed(s) THEN updateMetadata_catch(s)
    ELSE updateMetadata_afterDelete(s, fileId, updatedMetadata)

updateMetadata_afterSearch(s, fileId, updatedMetadata) ==
    LET found == Search(s.drive, MetadataFileName(fileId), s.metadataFolderId)
    IN  IF Failed(s) THEN updateMetadata_catch(s)
        ELSE updateMetadata_afterDelete(
                 IF Len(found) > 0
                 THEN deleteRequest(s, found[1].id,
                                    Req("deleteSidecar", fileId))
                 ELSE s,
                 fileId, updatedMetadata)

\* mutant: the new record is made of the partial fields only
updateMetadata_afterName_DropsOld(n, fileId, existingMetadata, metadata) ==
    updateMetadata_afterSearch(
        makeRequest(n, Req("searchSidecar", fileId)),
        fileId,
        Spread(metadata, [modifiedTime |-> toISOString(n.now)]))

\* the name was updated, or the attempt failed and its error was dropped
updateMetadata_afterName(n, fileId, existingMetadata, metadata) ==
    updateMetadata_afterSearch(
        makeRequest(n, Req("searchSidecar", fileId)),
        fileId,
        Spread(Spread(existingMetadata, metadata),
               [modifiedTime |-> toISOString(n.now)]))

\* mutant: a failed rename aborts the update
updateMetadata_afterGet_RenameAborts(g, fileId, metadata) ==
    IF Failed(g) THEN updateMetadata_catch(g)
    ELSE IF IsNull(g.ret)
    THEN updateMetadata_catch(Throw(g, "File metadata not found"))
    ELSE IF /\ Truthy(Get(metadata, "name"))
            /\ metadata.name # Get(g.ret, "name")
            /\ Failed(updateFileName(g, fileId, metadata.name))
    THEN updateMetadata_catch(updateFileName(g, fileId, metadata.name))
    ELSE updateMetadata_afterName(
             IF /\ Truthy(Get(metadata, "name"))
                /\ metadata.name # Get(g.ret, "name")
             THEN updateFileName(g, fileId, metadata.name)
             ELSE g,
             fileId, g.ret, metadata)

updateMetadata_afterGet(g, fileId, metadata) ==
    IF Failed(g) THEN updateMetadata_catch(g)
    ELSE IF IsNull(g.ret)
    THEN updateMetadata_catch(Throw(g, "File metadata not found"))
    ELSE updateMetadata_afterName(
             IF /\ Truthy(Get(metadata, "name"))
                /\ metadata.name # Get(g.ret, "name")
             THEN [updateFileName(g, fileId, metadata.name)
                      EXCEPT !.err = NoErr]
             ELSE g,
             fileId, g.ret, metadata)

updateMetadata(c, fileId, metadata) ==
    IF c.metadataFolderId = Null
    THEN updateMetadata_catch(Throw(c, "Metadata folder not initialized"))
    ELSE updateMetadata_afterGet(getFileMetadata(c, fileId), fileId, metadata)

(***************************************************************************)
(* The actions: one per public method, plus the clock and the one change   *)
(* made to the drive from outside the program.                             *)
(***************************************************************************)
UploadMetadata ==
    { EmptyPartial,
      [documentName |-> "Lab result", description |-> "blood",
       tags |-> <<"urgent", "medical">>, category |-> "Lab Result"] }
UploadFiles == [name : FileNames, type : {FileType}, size : FileSizes]
\* an identifier the provider never gives to an object of this store
ForeignId == MaxIds + 2
\* Partial<FileMetadata>: what the edit screen sends, and a partial that
\* carries the id and the description of a record of another document
UpdateFields ==
    { [name |-> "renamed.pdf", description |-> "", tags |-> <<>>,
       category |-> "Other"],
      [id |-> ForeignId, description |-> "copied"] }
\* identifiers a screen can pass: a listed document, or one no longer there
FileIdInputs == ContentIds \cup {nextId}

\* no call has a result waiting for its caller
Idle == [op |-> "idle"]

\* A call that sends n requests when every request is answered normally
\* sends at most n requests when some are not: the faults worth placing
\* are those among its first n requests.
Requests(c) == Len(c.reqs)
NoFaults == Enter({})

Init ==
    /\ drive = <<>>
    /\ nextId = 1
    /\ now = 0
    /\ accessToken = Null
    /\ rootFolderId = Null
    /\ docsFolderId = Null
    /\ metadataFolderId = Null
    /\ settingsFolderId = Null
    /\ last = Idle
    /\ prevInit = <<>>
    /\ justUploaded = Null
    /\ auth = [storage |-> [userToken |-> <<>>, refreshToken |-> <<>>,
                            userInfo |-> <<>>],
               isAuthenticated |-> FALSE, isLoading |-> TRUE,
               userToken |-> Null, userInfo |-> JsNull]
    /\ inFlight = <<>>

\* the faults that changed an answer the call received
Suffered(c) ==
    { f \in c.faults :
        /\ f[1] <= Len(c.reqs)
        /\ \/ f[2] = "status"
           \/ c.reqs[f[1]].kind \in {"uploadContent", "uploadSidecar"} }

\* the call `op(arg)` that ran to the context c has finished
Finish(c, op, arg) ==
    /\ c.nextId <= MaxIds + 1
    /\ drive' = c.drive
    /\ nextId' = c.nextId
    /\ rootFolderId' = c.rootFolderId
    /\ docsFolderId' = c.docsFolderId
    /\ metadataFolderId' = c.metadataFolderId
    /\ settingsFolderId' = c.settingsFolderId
    /\ last' = [op |-> op, arg |-> arg, prev |-> prevInit,
                after |-> justUploaded,
                threw |-> Failed(c), err |-> c.err,
                ret |-> IF Failed(c) THEN Null ELSE c.ret, reqs |-> c.reqs,
                faults |-> Suffered(c)]
    /\ prevInit' = IF c.resolved # <<>> THEN c.resolved ELSE prevInit
    /\ justUploaded' = IF op = "uploadFile" /\ ~Failed(c) /\ c.ret.success
                       THEN c.ret.fileId ELSE Null
    /\ UNCHANGED <<now, accessToken, auth, inFlight>>

\* the caller resumes with the result of the call it awaited
TakeResult ==
    /\ last # Idle
    /\ last' = Idle
    /\ UNCHANGED <<drive, nextId, now, accessToken, rootFolderId,
                   docsFolderId, metadataFolderId, settingsFolderId, prevInit,
                   justUploaded, auth, inFlight>>

SetAccessToken ==
    /\ last = Idle
    /\ \E token \in Tokens :
        /\ accessToken' = token
        /\ UNCHANGED <<drive, nextId, now, rootFolderId, docsFolderId,
                       metadataFolderId, settingsFolderId, last, prevInit,
                       justUploaded, auth, inFlight>>

\* mutant: the token is discarded and the folder identifiers are kept
ClearAccessToken_KeepFolders ==
    /\ last = Idle
    /\ accessToken' = Null
    /\ prevInit' = <<>>
    /\ justUploaded' = Null
    /\ UNCHANGED <<drive, nextId, now, last, rootFolderId, docsFolderId,
                   metadataFolderId, settingsFolderId, auth, inFlight>>

ClearAccessToken ==
    /\ last = Idle
    /\ accessToken' = Null
    /\ rootFolderId' = Null
    /\ docsFolderId' = Null
    /\ metadataFolderId' = Null
    /\ settingsFolderId' = Null
    /\ prevInit' = <<>>
    /\ justUploaded' = Null
    /\ UNCHANGED <<drive, nextId, now, last, auth, inFlight>>

\* getFolderStatus(): a read of the fields, no request
getFolderStatus ==
    [hasAccessToken |-> accessToken # Null,
     rootFolderId |-> rootFolderId,
     docsFolderId |-> docsFolderId,
     metadataFolderId |-> metadataFolderId,
     settingsFolderId |-> settingsFolderId]

InitializeFolderStructure ==
    /\ last = Idle
    /\ \E faults \in FaultSets(Requests(initializeFolderStructure(NoFaults))) :
        Finish(initializeFolderStructure(Enter(faults)),
               "initializeFolderStructure", Null)

UploadFile ==
    /\ last = Idle
    /\ \E file \in UploadFiles, metadata \in UploadMetadata :
      \E faults \in FaultSets(Requests(uploadFile(NoFaults, file, metadata))) :
        Finish(uploadFile(Enter(faults), file, metadata), "uploadFile",
               [name |-> file.name, type |-> file.type, size |-> file.size,
                metadata |-> metadata])

ListFiles ==
    /\ last = Idle
    /\ \E links \in BOOLEAN :
      \E faults \in FaultSets(Requests(listFiles(NoFaults, links))) :
        Finish(listFiles(Enter(faults), links), "listFiles", links)

DeleteFile ==
    /\ last = Idle
    /\ \E fileId \in FileIdInputs :
      \E faults \in FaultSets(Requests(deleteFile(NoFaults, fileId))) :
        Finish(deleteFile(Enter(faults), fileId), "deleteFile", fileId)

UpdateMetadata ==
    /\ last = Idle
    /\ \E fileId \in FileIdInputs, metadata \in UpdateFields :
      \E faults \in FaultSets(Requests(updateMetadata(NoFaults, fileId, metadata))) :
        Finish(updateMetadata(Enter(faults), fileId, metadata),
               "updateMetadata", [fileId |-> fileId, metadata |-> metadata])

Tick ==
    /\ last = Idle
    /\ now < MaxClock
    /\ now' = now + 1
    /\ UNCHANGED <<drive, nextId, accessToken, rootFolderId, docsFolderId,
                   metadataFolderId, settingsFolderId, last, prevInit,
                   justUploaded, auth, inFlight>>

\* a sidecar is removed by something other than this program
RemoveSidecarOutOfBand ==
    /\ last = Idle
    /\ \E id \in SidecarIds :
        /\ drive' = Remove(drive, id)
        /\ justUploaded' = Null
        /\ UNCHANGED <<nextId, now, accessToken, rootFolderId, docsFolderId,
                       metadataFolderId, settingsFolderId, last, prevInit,
                       auth, inFlight>>

\* a sidecar's content is overwritten, by something other than this program,
\* with bytes that are no JSON
CorruptSidecarOutOfBand ==
    /\ last = Idle
    /\ \E id \in SidecarIds :
        /\ Object(drive, id).body # UnreadableBody
        /\ drive' = Rewritten(drive, id, UnreadableBody)
        /\ justUploaded' = Null
        /\ UNCHANGED <<nextId, now, accessToken, rootFolderId, docsFolderId,
                       metadataFolderId, settingsFolderId, last, prevInit,
                       auth, inFlight>>

Next ==
    \/ SetAccessToken
    \/ ClearAccessToken
    \/ InitializeFolderStructure
    \/ UploadFile
    \/ ListFiles
    \/ DeleteFile
    \/ UpdateMetadata
    \/ Tick
    \/ RemoveSidecarOutOfBand
    \/ CorruptSidecarOutOfBand
    \/ TakeResult

Spec == Init /\ [][Next]_vars

(***************************************************************************)
(* Observations of the call that just finished, used by the properties.   *)
(***************************************************************************)
Returned(op) == last.op = op /\ ~last.threw
Threw(op) == last.op = op /\ last.threw
\* the call's k-th request was answered with a non-success status
Refused(k) == <<k, "status">> \in last.faults
FolderRequests ==
    { k \in 1..Len(last.reqs) :
        last.reqs[k].kind \in {"searchFolder", "createFolder"} }
\* the content files of the documents folder, in enumeration order
DocsFiles == Children(drive, docsFolderId)
\* the stored objects named `${fileId}_metadata.json`
SidecarsOf(fileId) ==
    SelectSeq(drive, LAMBDA o : o.name = MetadataFileName(fileId))
\* the drive's folders with this name under this parent
FoldersNamed(name, parent) ==
    { k \in 1..Len(drive) :
        IsFolder(drive[k]) /\ drive[k].name = name /\ drive[k].parent = parent }
\* the record the spec calls the fallback record of a content file, for a
\* listing in which the provider reports view links (`links`) or not
FallbackRecord(o, links) ==
    [id |-> o.id, name |-> o.name.s, mimeType |-> o.mimeType, size |-> o.size,
     createdTime |-> ProviderTime("createdTime", o.id),
     modifiedTime |-> ProviderTime("modifiedTime", o.id),
     description |-> "", tags |-> <<>>, category |-> "others",
     fileUrl |-> IF links THEN [link |-> "webViewLink", id |-> o.id]
                 ELSE [link |-> "drive.google.com/file/d", id |-> o.id]]
HasId(record, id) == "id" \in DOMAIN record /\ record.id = id

(***************************************************************************)
(* C1  After an uploadFile that returned success with file identifier f,   *)
(* the listFiles that follows it returns exactly one record whose id is f. *)
(***************************************************************************)
C1_ListAfterUploadHasOneRecord ==
    (Returned("listFiles") /\ last.after # Null) =>
        Cardinality({ i \in 1..Len(last.ret) :
                        HasId(last.ret[i], last.after) }) = 1

\* a listing of two files right after the second one was uploaded
C1_Witness ==
    /\ Returned("listFiles")
    /\ last.after # Null
    /\ Len(last.ret) = 2

(***************************************************************************)
(* C2  uploadFile never throws: every failure comes back as a result with  *)
(* success = FALSE and an error message.                                   *)
(***************************************************************************)
C2_UploadNeverThrows ==
    (last.op = "uploadFile" /\ accessToken # Null) =>
        /\ ~last.threw
        /\ last.ret.success \/ "error" \in DOMAIN last.ret

(***************************************************************************)
(* C3  In every state of a session, the folders provisioned or not,        *)
(* uploadFile of a file larger than 100 MiB returns success = FALSE with   *)
(* the size-limit error and sends no request.                              *)
(***************************************************************************)
C3_TooLargeSendsNothing ==
    (/\ last.op = "uploadFile"
     /\ accessToken # Null
     /\ last.arg.size > 100 * 1024 * 1024) =>
        /\ ~last.threw
        /\ last.ret = [success |-> FALSE,
                       error |-> "File size exceeds limit of 100MB"]
        /\ last.reqs = <<>>

(***************************************************************************)
(* C4  A listFiles that returns gives one record per content file of the   *)
(* documents folder, in enumeration order: the i-th record is the one      *)
(* built for the i-th file, with or without a sidecar.                     *)
(***************************************************************************)
C4_OneRecordPerFileInOrder ==
    Returned("listFiles") =>
        /\ Len(last.ret) = Len(DocsFiles)
        /\ \A i \in 1..Len(DocsFiles) :
               last.ret[i].fileUrl.id = DocsFiles[i].id

\* two files listed, the first without a sidecar and the second with one
C4_Witness ==
    /\ Returned("listFiles")
    /\ Len(DocsFiles) = 2
    /\ SidecarsOf(DocsFiles[1].id) = <<>>
    /\ SidecarsOf(DocsFiles[2].id) # <<>>

(***************************************************************************)
(* C5  A content file whose sidecar does not exist gets exactly one        *)
(* record, made of its native attributes, with empty description and tags, *)
(* category 'others' and fileUrl the view link or the constructed URL.     *)
(***************************************************************************)
C5_MissingSidecarGivesFallback ==
    Returned("listFiles") =>
        \A i \in 1..Len(DocsFiles) :
            SidecarsOf(DocsFiles[i].id) = <<>> =>
                /\ last.ret[i] = FallbackRecord(DocsFiles[i], last.arg)
                /\ Cardinality({ j \in 1..Len(last.ret) :
                                   HasId(last.ret[j], DocsFiles[i].id) }) = 1

\* a file without sidecar listed, with no request refused, next to a file
\* that has one
C5_Witness ==
    /\ Returned("listFiles")
    /\ last.faults = {}
    /\ metadataFolderId # Null
    /\ \E i, j \in 1..Len(DocsFiles) :
           /\ SidecarsOf(DocsFiles[i].id) = <<>>
           /\ SidecarsOf(DocsFiles[j].id) # <<>>

(***************************************************************************)
(* C6  Once the enumeration has been answered, listFiles returns, whatever *)
(* happens to the sidecar requests: a file whose sidecar search or         *)
(* download was refused, or every file when the metadata folder id is not  *)
(* cached, gets the fallback record, and every other file gets the record  *)
(* it gets in a listing without failures.                                  *)
(***************************************************************************)
C6_SidecarFailureIsIsolated ==
    (/\ last.op = "listFiles"
     /\ \E k \in 1..Len(last.reqs) :
            last.reqs[k].kind = "enumerate" /\ ~Refused(k)) =>
        /\ ~last.threw
        /\ Len(last.ret) = Len(DocsFiles)
        /\ \A i \in 1..Len(DocsFiles) :
             LET o == DocsFiles[i]
                 hit == \/ metadataFolderId = Null
                        \/ \E k \in 1..Len(last.reqs) :
                               last.reqs[k].of = o.id /\ Refused(k)
             IN  last.ret[i] =
                     IF hit THEN FallbackRecord(o, last.arg)
                     ELSE listOne(NoFaults, NativeFile(o, last.arg)).ret

\* the sidecar request of one file is refused and another file is listed
\* with the record of its sidecar
C6_Witness ==
    /\ Returned("listFiles")
    /\ \E i, j \in 1..Len(DocsFiles) :
           /\ SidecarsOf(DocsFiles[i].id) # <<>>
           /\ \E k \in 1..Len(last.reqs) :
                  last.reqs[k].of = DocsFiles[i].id /\ Refused(k)
           /\ last.ret[j] # FallbackRecord(DocsFiles[j], last.arg)

(***************************************************************************)
(* C7  A content file whose sidecar exists with an unreadable body gets    *)
(* the fallback record, not an object made from the unreadable body.       *)
(***************************************************************************)
C7_UnreadableSidecarGivesFallback ==
    Returned("listFiles") =>
        \A i \in 1..Len(DocsFiles) :
            (/\ SidecarsOf(DocsFiles[i].id) # <<>>
             /\ SidecarsOf(DocsFiles[i].id)[1].body = UnreadableBody) =>
                last.ret[i] = FallbackRecord(DocsFiles[i], last.arg)

(***************************************************************************)
(* C8  listFiles with a token held and the validation request refused      *)
(* fails with the session-expired error, which is not the generic remote   *)
(* error, and has sent nothing but the validation request.                 *)
(***************************************************************************)
C8_ExpiredTokenFailsFirst ==
    (last.op = "listFiles" /\ accessToken # Null /\ Refused(1)) =>
        /\ last.threw
        /\ last.err =
             <<"Access token is expired or invalid. Please log in again.">>
        /\ last.err # <<"Google Drive API error">>
        /\ last.reqs = <<Req("validate", Null)>>

\* the validation is refused in a session that has no folder identifier yet
C8_Witness ==
    /\ last.op = "listFiles"
    /\ accessToken # Null
    /\ Refused(1)
    /\ docsFolderId = Null

(***************************************************************************)
(* C9  A successful initializeFolderStructure that follows a successful    *)
(* one in the same session yields the same four identifiers and creates    *)
(* no folder: the drive holds one 'wecare' under the root and one 'docs',  *)
(* one 'metadata' and one 'settings' under it.                             *)
(***************************************************************************)
C9_InitializeTwiceSameFolders ==
    (Returned("initializeFolderStructure") /\ last.prev # <<>>) =>
        /\ <<rootFolderId, docsFolderId, metadataFolderId, settingsFolderId>>
               = last.prev
        /\ \A k \in 1..Len(last.reqs) : last.reqs[k].kind # "createFolder"
        /\ Cardinality(FoldersNamed(ROOT_FOLDER_NAME, DriveRoot)) = 1
        /\ \A name \in {DOCS_FOLDER_NAME, METADATA_FOLDER_NAME,
                        SETTINGS_FOLDER_NAME} :
               Cardinality(FoldersNamed(name, rootFolderId)) = 1

C9_Witness ==
    /\ Returned("initializeFolderStructure")
    /\ last.prev # <<>>

(***************************************************************************)
(* C10  After one successful resolution in a session, a later              *)
(* initializeFolderStructure, uploadFile or listFiles sends no folder      *)
(* search and no folder create request.                                    *)
(***************************************************************************)
C10_FoldersResolvedOncePerSession ==
    (/\ last.op \in {"initializeFolderStructure", "uploadFile", "listFiles"}
     /\ last.prev # <<>>) =>
        FolderRequests = {}

(***************************************************************************)
(* C11  An uploadFile or listFiles sends a content upload or an            *)
(* enumeration request only with all four folder identifiers cached: after *)
(* an initialization that failed part-way, it provisions again first.      *)
(***************************************************************************)
C11_NoContentRequestOnPartialStructure ==
    (/\ last.op \in {"uploadFile", "listFiles"}
     /\ \E k \in 1..Len(last.reqs) :
            last.reqs[k].kind \in {"uploadContent", "enumerate"}) =>
        /\ rootFolderId # Null
        /\ docsFolderId # Null
        /\ metadataFolderId # Null
        /\ settingsFolderId # Null

(***************************************************************************)
(* C12  A step that discards the token leaves getFolderStatus with no      *)
(* token and four null identifiers; and an uploadFile or listFiles that    *)
(* starts with a token and no identifier cached (the state a               *)
(* setAccessToken after a clearAccessToken leaves) sends a request that    *)
(* names a folder identifier only after the four folder searches of this   *)
(* call, and the identifiers it leaves cached are those this call          *)
(* resolved.                                                               *)
(***************************************************************************)
NoFolderStatus(hasToken) ==
    [hasAccessToken |-> hasToken, rootFolderId |-> Null,
     docsFolderId |-> Null, metadataFolderId |-> Null,
     settingsFolderId |-> Null]
\* positions, in the requests of a finished call, of those that name a
\* documents or metadata folder identifier
UsesOfFolders(call) ==
    { k \in 1..Len(call.reqs) :
        call.reqs[k].kind \notin {"validate", "searchFolder", "createFolder"} }
SearchesBefore(call, k) ==
    { j \in 1..(k - 1) : call.reqs[j].kind = "searchFolder" }

C12_ClearIsASessionBoundary ==
    [][/\ (accessToken # Null /\ accessToken' = Null) =>
              getFolderStatus' = NoFolderStatus(FALSE)
       /\ (/\ last = Idle
           /\ last'.op \in {"uploadFile", "listFiles"}
           /\ getFolderStatus = NoFolderStatus(TRUE)
           /\ UsesOfFolders(last') # {}) =>
              /\ \A k \in UsesOfFolders(last') :
                     Cardinality(SearchesBefore(last', k)) = 4
              /\ prevInit' # <<>>
              /\ prevInit' = <<rootFolderId', docsFolderId',
                               metadataFolderId', settingsFolderId'>>
      ]_vars

\* a listing that resolved the four folders anew, all of them found, and
\* returned the record of a file whose sidecar an earlier session wrote
C12_Witness ==
    /\ Returned("listFiles")
    /\ last.prev = <<>>
    /\ Cardinality(FolderRequests) = 4
    /\ Len(last.ret) = 1
    /\ SidecarsOf(DocsFiles[1].id) # <<>>

(***************************************************************************)
(* C13  When deleteFile(f) has returned true right after the uploadFile    *)
(* that returned f, in the same session: a listFiles that follows and      *)
(* returns, whichever of its requests is refused, has no record with id    *)
(* f, and a getFileMetadata(f) that follows, its request answered,         *)
(* returns null and throws nothing.                                        *)
(***************************************************************************)
DeletedJustAfterUpload ==
    /\ Returned("deleteFile")
    /\ last.ret = TRUE
    /\ last.after # Null
    /\ last.after = last.arg

C13_DeletedFileIsGone ==
    DeletedJustAfterUpload =>
        /\ \A links \in BOOLEAN :
             \A faults \in FaultSets(Requests(listFiles(NoFaults, links))) :
               ~Failed(listFiles(Enter(faults), links)) =>
                   \A i \in 1..Len(listFiles(Enter(faults), links).ret) :
                       ~HasId(listFiles(Enter(faults), links).ret[i], last.arg)
        /\ ~Failed(getFileMetadata(NoFaults, last.arg))
        /\ getFileMetadata(NoFaults, last.arg).ret = JsNull

\* the deletion removed the content file and the sidecar of the upload
C13_Witness ==
    /\ DeletedJustAfterUpload
    /\ \E k \in 1..Len(last.reqs) : last.reqs[k].kind = "deleteSidecar"
    /\ last.faults = {}

(***************************************************************************)
(* C14  A deleteFile whose DELETE of the content file fails (the request   *)
(* refused, or the identifier unknown to the provider) throws the remote   *)
(* error, has sent that one request only, and leaves the store as it was.  *)
(***************************************************************************)
C14_FailedDeleteChangesNothing ==
    [][(/\ last = Idle
        /\ last'.op = "deleteFile"
        /\ last'.reqs # <<>>
        /\ \/ <<1, "status">> \in last'.faults
           \/ ~Exists(drive, last'.arg)) =>
           /\ last'.threw
           /\ last'.err = <<"Failed to delete file", "Google Drive API error">>
           /\ last'.reqs = <<Req("deleteContent", last'.arg)>>
           /\ drive' = drive
      ]_vars

\* the DELETE of a stored file that has a sidecar was refused
C14_Witness ==
    /\ Threw("deleteFile")
    /\ Refused(1)
    /\ metadataFolderId # Null
    /\ Exists(drive, last.arg)
    /\ SidecarsOf(last.arg) # <<>>

(***************************************************************************)
(* C15  A deleteFile that got past the DELETE of the content file (it has  *)
(* sent a request after it) returns true, whatever the answer to its       *)
(* sidecar search or to its sidecar DELETE.                                *)
(***************************************************************************)
C15_DeleteSucceedsOnceContentIsGone ==
    (last.op = "deleteFile" /\ Len(last.reqs) >= 2) =>
        /\ ~last.threw
        /\ last.ret = TRUE

(***************************************************************************)
(* C16  After a deleteFile(f) that returned true with none of its requests *)
(* refused, the store holds neither the content file f nor an object named *)
(* '<f>_metadata.json', whether or not the metadata folder identifier was  *)
(* cached.                                                                 *)
(***************************************************************************)
C16_DeleteLeavesNoSidecar ==
    (/\ Returned("deleteFile")
     /\ last.ret = TRUE
     /\ last.faults = {}) =>
        /\ ~Exists(drive, last.arg)
        /\ SidecarsOf(last.arg) = <<>>

(***************************************************************************)
(* C17  After an updateMetadata(f, {name: n, ..}) that returned true,      *)
(* getFileMetadata(f) returns a record whose name is n and whose           *)
(* modifiedTime is strictly later than the modifiedTime the sidecar held   *)
(* before the update, whatever the clock reads at the update.              *)
(***************************************************************************)
\* the record a getFileMetadata(fileId) returns in this state, its requests
\* answered
StoredRecord(fileId) == getFileMetadata(NoFaults, fileId).ret
\* both are readings of the device's clock, the first the earlier
Earlier(t, u) == t.clock = "device" /\ u.clock = "device" /\ t.at < u.at

C17_UpdateAdvancesModifiedTime ==
    [][(/\ last = Idle
        /\ last'.op = "updateMetadata"
        /\ ~last'.threw
        /\ "name" \in DOMAIN last'.arg.metadata
        /\ "modifiedTime" \in DOMAIN StoredRecord(last'.arg.fileId)) =>
           /\ StoredRecord(last.arg.fileId)'.name = last'.arg.metadata.name
           /\ Earlier(StoredRecord(last'.arg.fileId).modifiedTime,
                      StoredRecord(last.arg.fileId)'.modifiedTime)
      ]_vars

(***************************************************************************)
(* C18  With a token held and every request answered, updateMetadata(f)    *)
(* for an f that has no sidecar in the store throws the metadata-not-found *)
(* error and leaves the store as it was.                                   *)
(***************************************************************************)
C18_UpdateWithoutSidecarIsNotFound ==
    [][(/\ last = Idle
        /\ last'.op = "updateMetadata"
        /\ accessToken # Null
        /\ last'.faults = {}
        /\ SidecarsOf(last'.arg.fileId) = <<>>) =>
           /\ last'.threw
           /\ last'.err = <<"Failed to update metadata",
                            "File metadata not found">>
           /\ drive' = drive
      ]_vars

(***************************************************************************)
(* C19  updateMetadata sends the rename of the content file only when the  *)
(* partial fields carry a name that differs from the name in the sidecar;  *)
(* and when the rename fails (refused, or the content file unknown to the  *)
(* provider) and no other request is refused, updateMetadata returns true  *)
(* and the store holds one sidecar of f, with the merged fields.           *)
(***************************************************************************)
RenameRequests(call) ==
    { k \in 1..Len(call.reqs) : call.reqs[k].kind = "patchName" }

C19_RenameIsBestEffort ==
    [][(last = Idle /\ last'.op = "updateMetadata") =>
         /\ RenameRequests(last') # {} =>
               /\ Truthy(Get(last'.arg.metadata, "name"))
               /\ last'.arg.metadata.name
                      # Get(StoredRecord(last'.arg.fileId), "name")
         /\ (/\ RenameRequests(last') # {}
             /\ last'.faults \subseteq RenameRequests(last') \X {"status"}
             /\ last'.faults # {} \/ ~Exists(drive, last'.arg.fileId)) =>
               /\ ~last'.threw
               /\ last'.ret = TRUE
               /\ Len(SidecarsOf(last.arg.fileId)') = 1
               /\ StoredRecord(last.arg.fileId)' =
                      Spread(Spread(StoredRecord(last'.arg.fileId),
                                    last'.arg.metadata),
                             [modifiedTime |-> toISOString(now)])
      ]_vars

\* the rename of a stored content file was refused and the update returned
C19_Witness ==
    /\ Returned("updateMetadata")
    /\ \E k \in 1..Len(last.reqs) :
           last.reqs[k].kind = "patchName" /\ Refused(k)
    /\ Exists(drive, last.arg.fileId)
    /\ Object(drive, last.arg.fileId).name = PlainName("report.pdf")

(***************************************************************************)
(* C20  In every state reached by calls that do not overlap, each free to  *)
(* fail at any of its requests, the store holds at most one object named   *)
(* '<f>_metadata.json' for every file identifier f, and it is in the       *)
(* metadata folder.                                                        *)
(***************************************************************************)
C20_AtMostOneSidecarPerFile ==
    \A f \in 1..(nextId - 1) :
        /\ Len(SidecarsOf(f)) <= 1
        /\ \A i \in 1..Len(SidecarsOf(f)) :
               \E k \in FoldersNamed(METADATA_FOLDER_NAME, drive[1].id) :
                   SidecarsOf(f)[i].parent = drive[k].id

\* an update has replaced the sidecar that the upload wrote
C20_Witness ==
    /\ Returned("updateMetadata")
    /\ Len(SidecarsOf(last.arg.fileId)) = 1
    /\ SidecarsOf(last.arg.fileId)[1].id # last.arg.fileId + 1

(***************************************************************************)
(* C21  An updateMetadata(f, partial) that returns true on a sidecar whose *)
(* record has id f, the partial free to carry any field of a record,       *)
(* leaves a sidecar whose record has id f, and every record a following    *)
(* listFiles returns for the content file f has id f.                      *)
(***************************************************************************)
C21_RecordIdIsFileId ==
    [][(/\ last = Idle
        /\ last'.op = "updateMetadata"
        /\ ~last'.threw
        /\ HasId(StoredRecord(last'.arg.fileId), last'.arg.fileId)) =>
           /\ HasId(StoredRecord(last.arg.fileId)', last'.arg.fileId)
           /\ \A links \in BOOLEAN :
                ~Failed(listFiles(NoFaults, links))' =>
                    \A i \in 1..Len(listFiles(NoFaults, links).ret') :
                        listFiles(NoFaults, links).ret'[i].fileUrl.id
                              = last'.arg.fileId =>
                            HasId(listFiles(NoFaults, links).ret'[i],
                                  last'.arg.fileId)
      ]_vars

(***************************************************************************)
(* C22  After an uploadFile that returned success with identifier f: when  *)
(* the metadata carried a documentName, the content file f is stored under *)
(* it and the record in the sidecar of f has it as its name; when it       *)
(* carried none, both have the name the file declares.                     *)
(***************************************************************************)
C22_OverrideNamesContentAndRecord ==
    (Returned("uploadFile") /\ last.ret.success) =>
        LET chosen == IF Truthy(Get(last.arg.metadata, "documentName"))
                      THEN last.arg.metadata.documentName
                      ELSE last.arg.name
        IN  /\ Object(drive, last.ret.fileId).name = PlainName(chosen)
            /\ StoredRecord(last.ret.fileId).name = chosen

(***************************************************************************)
(* C23  When the sidecar write of an uploadFile is refused after the       *)
(* content file was stored: uploadFile throws, the content file is still   *)
(* in the documents folder and has no sidecar, and every listFiles that    *)
(* follows and returns has exactly one record for it, the fallback record. *)
(***************************************************************************)
SidecarWriteRefused ==
    /\ last.op = "uploadFile"
    /\ \E k \in 1..Len(last.reqs) :
           last.reqs[k].kind = "uploadSidecar" /\ Refused(k)
\* the object the provider stored last
Newest == drive[Len(drive)]

C23_ContentStaysWithoutSidecar ==
    SidecarWriteRefused =>
        /\ last.threw
        /\ last.err = <<"Upload failed", "Failed to save metadata">>
        /\ IsContent(Newest)
        /\ Newest.parent = docsFolderId
        /\ SidecarsOf(Newest.id) = <<>>
        /\ \A links \in BOOLEAN :
             \A faults \in FaultSets(Requests(listFiles(NoFaults, links))) :
               ~Failed(listFiles(Enter(faults), links)) =>
                 /\ Cardinality(
                      { i \in 1..Len(listFiles(Enter(faults), links).ret) :
                          listFiles(Enter(faults), links).ret[i].fileUrl.id
                            = Newest.id }) = 1
                 /\ \A i \in 1..Len(listFiles(Enter(faults), links).ret) :
                      listFiles(Enter(faults), links).ret[i].fileUrl.id
                            = Newest.id =>
                        listFiles(Enter(faults), links).ret[i]
                            = FallbackRecord(Newest, links)

\* the sidecar write was refused next to a file uploaded with its sidecar
C23_Witness ==
    /\ SidecarWriteRefused
    /\ Len(DocsFiles) = 2
    /\ SidecarsOf(DocsFiles[1].id) # <<>>

(***************************************************************************)
(* C24  An updateMetadata or deleteFile called with a token held, no       *)
(* metadata folder identifier cached and every request answered resolves   *)
(* the folders first: it sends folder searches, leaves the identifier      *)
(* cached, does not throw the not-initialized error (update) and leaves no *)
(* sidecar of the deleted file (delete).                                   *)
(***************************************************************************)
C24_UpdateAndDeleteProvisionLazily ==
    [][(/\ last = Idle
        /\ last'.op \in {"updateMetadata", "deleteFile"}
        /\ accessToken # Null
        /\ metadataFolderId = Null
        /\ last'.faults = {}) =>
           /\ \E k \in 1..Len(last'.reqs) : last'.reqs[k].kind = "searchFolder"
           /\ metadataFolderId' # Null
           /\ last'.err # <<"Failed to update metadata",
                            "Metadata folder not initialized">>
           /\ (last'.op = "deleteFile" /\ ~last'.threw) =>
                  SidecarsOf(last.arg)' = <<>>
      ]_vars

(***************************************************************************)
(* C26  An updateMetadata(f, partial) that returns true replaces the       *)
(* record in the sidecar of f by the old record overlaid with the partial  *)
(* fields and with modifiedTime set to the clock's reading: every field of *)
(* the old record that the partial does not carry, modifiedTime apart,     *)
(* is in the new record with the value it had.                             *)
(***************************************************************************)
C26_UpdateKeepsAbsentFields ==
    [][(/\ last = Idle
        /\ last'.op = "updateMetadata"
        /\ ~last'.threw) =>
           /\ StoredRecord(last.arg.fileId)' =
                  Spread(Spread(StoredRecord(last'.arg.fileId),
                                last'.arg.metadata),
                         [modifiedTime |-> toISOString(now)])
           /\ \A f \in DOMAIN StoredRecord(last'.arg.fileId)
                          \ (DOMAIN last'.arg.metadata \cup {"modifiedTime"}) :
                  /\ f \in DOMAIN StoredRecord(last.arg.fileId)'
                  /\ StoredRecord(last.arg.fileId)'[f]
                         = StoredRecord(last'.arg.fileId)[f]
      ]_vars

\* a partial without tags and category has updated a record that was
\* uploaded with both
C26_Witness ==
    /\ Returned("updateMetadata")
    /\ DOMAIN last.arg.metadata \cap {"name", "tags", "category"} = {}
    /\ Get(StoredRecord(last.arg.fileId), "category") = "Lab Result"
    /\ Get(StoredRecord(last.arg.fileId), "description") = "copied"

(***************************************************************************)
(* saveProfile / getProfile, and the specification of a session that       *)
(* provisions the folders and saves and reads the profile.                 *)
(***************************************************************************)
PROFILE_FILE_NAME == PlainName("profile.json")
\* the profile as the provider stores it: JSON.stringify(profileData, null, 2)
ProfileFile(parent, profileData) ==
    [id |-> Null, name |-> PROFILE_FILE_NAME, parent |-> parent,
     mimeType |-> "application/json", body |-> JsonBody(profileData)]

\* catch (error) of saveProfile
saveProfile_catch(x) == Rethrow(x, "Failed to save profile")

\* return response.ok
saveProfile_afterFetch(f, profileData) ==
    IF Answer(f) = "status" THEN Return(f, FALSE)
    ELSE Return(Create(f, ProfileFile(f.settingsFolderId, profileData)), TRUE)

saveProfile(c, profileData) ==
    IF c.settingsFolderId = Null
    THEN saveProfile_catch(Throw(c, "Settings folder not initialized"))
    ELSE saveProfile_afterFetch(fetch(c, Req("uploadProfile", Null)),
                                profileData)

\* catch (error) of getProfile
getProfile_catch(x) == Rethrow(x, "Failed to get profile")

getProfile_afterDownload(g, body) ==
    IF Failed(g) THEN getProfile_catch(g)
    ELSE Return(g, ResponseJson(body))

getProfile_afterSearch(s) ==
    LET found == Search(s.drive, PROFILE_FILE_NAME, s.settingsFolderId)
    IN  IF Failed(s) THEN getProfile_catch(s)
        ELSE IF Len(found) = 0 THEN Return(s, JsNull)
        ELSE getProfile_afterDownload(
                 makeRequest(s, Req("downloadProfile", Null)),
                 found[1].body)

getProfile(c) ==
    IF c.settingsFolderId = Null
    THEN getProfile_catch(Throw(c, "Settings folder not initialized"))
    ELSE getProfile_afterSearch(makeRequest(c, Req("searchProfile", Null)))

ProfileData ==
    { [name |-> "Ann", email |-> "ann@example.org"],
      [name |-> "Ann B.", email |-> "ann@example.org"] }

SaveProfile ==
    /\ last = Idle
    /\ \E profileData \in ProfileData :
      \E faults \in FaultSets(Requests(saveProfile(NoFaults, profileData))) :
        Finish(saveProfile(Enter(faults), profileData), "saveProfile",
               profileData)

GetProfile ==
    /\ last = Idle
    /\ \E faults \in FaultSets(Requests(getProfile(NoFaults))) :
        Finish(getProfile(Enter(faults)), "getProfile", Null)

NextProfile ==
    \/ SetAccessToken
    \/ ClearAccessToken
    \/ InitializeFolderStructure
    \/ SaveProfile
    \/ GetProfile
    \/ TakeResult

SpecProfile == Init /\ [][NextProfile]_vars

\* the stored objects named 'profile.json' in the settings folder
Profiles == Search(drive, PROFILE_FILE_NAME, settingsFolderId)

(***************************************************************************)
(* C25  After a saveProfile(data) that returned true, the settings folder  *)
(* holds exactly one 'profile.json' and a getProfile that follows, its     *)
(* requests answered, returns data.                                        *)
(***************************************************************************)
C25_ProfileIsASingleton ==
    (Returned("saveProfile") /\ last.ret = TRUE) =>
        /\ Len(Profiles) = 1
        /\ ~Failed(getProfile(NoFaults))
        /\ getProfile(NoFaults).ret = last.arg

(***************************************************************************)
(* AuthProvider.  A call of the auth layer runs on the pair r of the       *)
(* service's call context r.c and the auth layer's state r.a: the items of *)
(* AsyncStorage (<<>>: no item, <<v>>: the item v) and the React state.    *)
(***************************************************************************)
\* the access_token of a token endpoint's answer
RefreshedToken == 2
RefreshTokens == {Undefined, "1//refresh"}
UserInfos == {JsNull, [name |-> "Ann", email |-> "ann@example.org"]}

setAccessToken(c, token) == [c EXCEPT !.accessToken = token]
clearAccessToken(c) ==
    [c EXCEPT !.accessToken = Null, !.rootFolderId = Null,
              !.docsFolderId = Null, !.metadataFolderId = Null,
              !.settingsFolderId = Null]

refreshAccessToken(c, refreshToken) ==
    LET f == fetch(c, Req("refreshToken", Null))
    IN  Return(f, IF Answer(f) = "status" THEN Null ELSE RefreshedToken)

logout(r) ==
    [c |-> clearAccessToken(r.c),
     a |-> [r.a EXCEPT !.storage = [userToken |-> <<>>, refreshToken |-> <<>>,
                                    userInfo |-> <<>>],
                       !.userToken = Null,
                       !.userInfo = JsNull,
                       !.isAuthenticated = FALSE]]

\* newToken is r.c.ret
attemptTokenRefresh_afterRefresh(r) ==
    IF Failed(r.c) THEN [r EXCEPT !.c = Return([@ EXCEPT !.err = NoErr], FALSE)]
    ELSE IF r.c.ret # Null
    THEN [c |-> Return(r.c, TRUE),
          a |-> [r.a EXCEPT !.storage.userToken = <<r.c.ret>>,
                            !.userToken = r.c.ret]]
    ELSE [r EXCEPT !.c = Return(@, FALSE)]

attemptTokenRefresh(r) ==
    IF r.a.storage.refreshToken = <<>>
    THEN [r EXCEPT !.c = Return(@, FALSE)]
    ELSE attemptTokenRefresh_afterRefresh(
             [r EXCEPT !.c = refreshAccessToken(@, r.a.storage.refreshToken[1])])

\* finally of checkAuthStatus
checkAuthStatus_finally(r) == [r EXCEPT !.a.isLoading = FALSE]

\* the folder initialization has returned or thrown; its error is dropped
checkAuthStatus_afterInit(i) ==
    checkAuthStatus_finally([i EXCEPT !.c.err = NoErr,
                                      !.a.isAuthenticated = TRUE])

checkAuthStatus_afterRefresh(f) ==
    IF ~f.c.ret THEN checkAuthStatus_finally(logout(f))
    ELSE checkAuthStatus_afterInit(
             [f EXCEPT !.c = initializeFolderStructure(@)])

\* isValid is v.c.ret
checkAuthStatus_afterValidate(v) ==
    IF ~v.c.ret THEN checkAuthStatus_afterRefresh(attemptTokenRefresh(v))
    ELSE checkAuthStatus_afterInit(
             [v EXCEPT !.c = initializeFolderStructure(@)])

checkAuthStatus(r) ==
    IF r.a.storage.userToken # <<>> /\ r.a.storage.userInfo # <<>>
    THEN checkAuthStatus_afterValidate(
             [c |-> validateToken(
                        setAccessToken(r.c, r.a.storage.userToken[1])),
              a |-> [r.a EXCEPT !.userInfo = r.a.storage.userInfo[1].json,
                                !.userToken = r.a.storage.userToken[1]]])
    ELSE checkAuthStatus_finally([r EXCEPT !.a.isAuthenticated = FALSE])

login(r, token, refreshToken, userInfo) ==
    [c |-> [initializeFolderStructure(setAccessToken(r.c, token))
               EXCEPT !.err = NoErr],
     a |-> [r.a EXCEPT
              !.storage.userToken = <<token>>,
              !.storage.refreshToken =
                  IF Truthy(refreshToken) THEN <<refreshToken>> ELSE @,
              !.storage.userInfo =
                  IF ~IsNull(userInfo) THEN <<JsonBody(userInfo)>> ELSE @,
              !.userToken = token,
              !.userInfo = IF ~IsNull(userInfo) THEN userInfo ELSE @,
              !.isAuthenticated = TRUE]]

\* a call of the auth layer starts from the state as it is
EnterAuth(faults) == [c |-> Enter(faults), a |-> auth]

\* the call `op(arg)` of the auth layer that ran to r has finished
FinishAuth(r, op, arg) ==
    /\ r.c.nextId <= MaxIds + 1
    /\ drive' = r.c.drive
    /\ nextId' = r.c.nextId
    /\ accessToken' = r.c.accessToken
    /\ rootFolderId' = r.c.rootFolderId
    /\ docsFolderId' = r.c.docsFolderId
    /\ metadataFolderId' = r.c.metadataFolderId
    /\ settingsFolderId' = r.c.settingsFolderId
    /\ auth' = r.a
    /\ last' = [op |-> op, arg |-> arg, prev |-> prevInit,
                after |-> justUploaded,
                threw |-> Failed(r.c), err |-> r.c.err,
                ret |-> Null, reqs |-> r.c.reqs,
                faults |-> Suffered(r.c)]
    /\ prevInit' = IF r.c.accessToken = Null THEN <<>>
                   ELSE IF r.c.resolved # <<>> THEN r.c.resolved
                   ELSE prevInit
    /\ justUploaded' = Null
    /\ UNCHANGED <<now, inFlight>>

Login ==
    /\ last = Idle
    /\ \E token \in Tokens, refreshToken \in RefreshTokens,
          userInfo \in UserInfos :
      \E faults \in FaultSets(Requests(
             login(EnterAuth({}), token, refreshToken, userInfo).c)) :
        FinishAuth(login(EnterAuth(faults), token, refreshToken, userInfo),
                   "login", token)

Logout ==
    /\ last = Idle
    /\ FinishAuth(logout(EnterAuth({})), "logout", Null)

CheckAuthStatus ==
    /\ last = Idle
    /\ \E faults \in FaultSets(Requests(checkAuthStatus(EnterAuth({})).c)) :
        FinishAuth(checkAuthStatus(EnterAuth(faults)), "checkAuthStatus",
                   Null)

NextAuth ==
    \/ Login
    \/ Logout
    \/ CheckAuthStatus
    \/ TakeResult

SpecAuth == Init /\ [][NextAuth]_vars

(***************************************************************************)
(* C30  When checkAuthStatus has finished with isAuthenticated = true, the *)
(* access token the service holds is the token the auth layer holds as     *)
(* userToken, in its state and in AsyncStorage.                            *)
(***************************************************************************)
C30_ServiceHoldsTheStoredToken ==
    (last.op = "checkAuthStatus" /\ auth.isAuthenticated) =>
        /\ accessToken = auth.userToken
        /\ <<accessToken>> = auth.storage.userToken

(***************************************************************************)
(* Calls that overlap.  A method that awaits gives the thread back: while  *)
(* its request is on its way other calls run.  A call in flight is a       *)
(* record t: the method and its argument, the await it is suspended at     *)
(* (t.at; "done" once it has returned or thrown), the request it has sent  *)
(* and not yet seen answered (t.req, with what the request carries: the    *)
(* values the fields had when it was sent), and its local variables t.x.   *)
(* The provider acts on a request when its response is delivered; the      *)
(* code after the await then runs up to the next await.  Every request is  *)
(* answered normally here: what is studied is the interleaving.            *)
(***************************************************************************)
MaxCalls == 2

\* no local variable is set; the promise is not settled
NoLocals == [none |-> TRUE]
Unsettled == [unsettled |-> TRUE]
NewCall(op, arg) ==
    [op |-> op, arg |-> arg, at |-> "start", req |-> Req("none", Null),
     x |-> NoLocals, threw |-> FALSE, err |-> NoErr, ret |-> Unsettled]
\* the request as it leaves: the token and the identifiers are those of now
Sent(c, kind, fileId, id, name, parent) ==
    [kind |-> kind, of |-> fileId, id |-> id, name |-> name,
     parent |-> parent, token |-> c.accessToken]
Suspend(c, t, at, req, x) ==
    [c |-> c, t |-> [t EXCEPT !.at = at, !.req = req, !.x = x]]
Resolve(c, t, value) ==
    [c |-> c, t |-> [t EXCEPT !.at = "done", !.ret = [value |-> value]]]
Reject(c, t, err) ==
    [c |-> c, t |-> [t EXCEPT !.at = "done", !.threw = TRUE, !.err = err]]

\* ---- listFiles, from the enumeration on
\* for (const file of response.files): up to the next await
RECURSIVE listFiles_loop(_, _, _, _)
listFiles_loop(c, t, responseFiles, files) ==
    IF responseFiles = <<>> THEN Resolve(c, t, files)
    ELSE IF c.metadataFolderId = Null \/ c.accessToken = Null
    THEN listFiles_loop(c, t, Tail(responseFiles),
                        Append(files, fallbackMetadata(Head(responseFiles))))
    ELSE Suspend(c, t, "sidecarSearch",
                 Sent(c, "searchSidecar", Head(responseFiles).id, Null,
                      MetadataFileName(Head(responseFiles).id),
                      c.metadataFolderId),
                 [responseFiles |-> responseFiles, files |-> files])

listFiles_onSidecarDownload(c, t) ==
    listFiles_loop(c, t, Tail(t.x.responseFiles),
        Append(t.x.files,
               IF Exists(c.drive, t.req.id)
               THEN Spread(ResponseJson(Object(c.drive, t.req.id).body),
                           [fileUrl |-> FileUrl(Head(t.x.responseFiles))])
               ELSE fallbackMetadata(Head(t.x.responseFiles))))

\* mutant: a file whose sidecar search finds nothing gets no record
listFiles_onSidecarSearch_Omits(c, t) ==
    LET found == Search(c.drive, t.req.name, t.req.parent)
    IN  IF Len(found) = 0
        THEN listFiles_loop(c, t, Tail(t.x.responseFiles), t.x.files)
        ELSE IF c.accessToken = Null
        THEN listFiles_loop(c, t, Tail(t.x.responseFiles),
                 Append(t.x.files, fallbackMetadata(Head(t.x.responseFiles))))
        ELSE Suspend(c, t, "sidecarDownload",
                     Sent(c, "downloadSidecar", t.req.of, found[1].id,
                          Null, Null),
                     t.x)

listFiles_onSidecarSearch(c, t) ==
    LET found == Search(c.drive, t.req.name, t.req.parent)
    IN  IF Len(found) = 0 \/ c.accessToken = Null
        THEN listFiles_loop(c, t, Tail(t.x.responseFiles),
                 Append(t.x.files, fallbackMetadata(Head(t.x.responseFiles))))
        ELSE Suspend(c, t, "sidecarDownload",
                     Sent(c, "downloadSidecar", t.req.of, found[1].id,
                          Null, Null),
                     t.x)

\* A request that names the folder `null` (the identifier was cleared
\* before the request was built) names no folder: the provider refuses it.
listFiles_onEnumerate(c, t) ==
    IF t.req.parent = Null THEN Reject(c, t, <<"Google Drive API error">>)
    ELSE listFiles_loop(
             c, t,
             EnumerationResponse(Children(c.drive, t.req.parent), t.arg),
             <<>>)

listFiles_enumerate(c, t) ==
    IF c.accessToken = Null THEN Reject(c, t, <<"No access token available">>)
    ELSE Suspend(c, t, "enumerate",
                 Sent(c, "enumerate", Null, Null, Null, c.docsFolderId),
                 NoLocals)

\* ---- initializeFolderStructure, called or awaited by listFiles
FolderNames == <<ROOT_FOLDER_NAME, DOCS_FOLDER_NAME, METADATA_FOLDER_NAME,
                 SETTINGS_FOLDER_NAME>>
\* this.<k-th folder field> = id
AssignFolder(c, k, id) ==
    CASE k = 1 -> [c EXCEPT !.rootFolderId = id]
      [] k = 2 -> [c EXCEPT !.docsFolderId = id]
      [] k = 3 -> [c EXCEPT !.metadataFolderId = id]
      [] k = 4 -> [c EXCEPT !.settingsFolderId = id]

initializeFolderStructure_reject(c, t, err) ==
    Reject(c, t, <<"Failed to initialize folder structure">> \o err)

\* findOrCreateFolder of the k-th folder, up to its search
findOrCreateFolder_search(c, t, k) ==
    IF c.accessToken = Null
    THEN initializeFolderStructure_reject(c, t, <<"No access token available">>)
    ELSE Suspend(c, t, "folderSearch",
                 Sent(c, "searchFolder", Null, Null, FolderNames[k],
                      IF k = 1 THEN Null ELSE c.rootFolderId),
                 [k |-> k])

\* findOrCreateFolder has returned id for the folder t.x.k
initializeFolderStructure_assign(c, t, id) ==
    IF t.x.k < Len(FolderNames)
    THEN findOrCreateFolder_search(AssignFolder(c, t.x.k, id), t, t.x.k + 1)
    ELSE IF t.op = "listFiles"
    THEN listFiles_enumerate(AssignFolder(c, t.x.k, id), t)
    ELSE Resolve(AssignFolder(c, t.x.k, id), t, TRUE)

findOrCreateFolder_onCreate(c, t) ==
    initializeFolderStructure_assign(
        Create(c, [id |-> Null, name |-> t.req.name,
                   parent |-> FolderParent(t.req.parent),
                   mimeType |-> FolderMimeType]),
        t, c.nextId)

findOrCreateFolder_onSearch(c, t) ==
    LET found == Search(c.drive, t.req.name, FolderParent(t.req.parent))
    IN  IF Len(found) > 0
        THEN initializeFolderStructure_assign(c, t, found[1].id)
        ELSE IF c.accessToken = Null
        THEN initializeFolderStructure_reject(
                 c, t, <<"No access token available">>)
        ELSE Suspend(c, t, "folderCreate",
                     Sent(c, "createFolder", Null, Null, t.req.name,
                          t.req.parent),
                     t.x)

initializeFolderStructure_start(c, t) ==
    IF c.accessToken = Null
    THEN initializeFolderStructure_reject(
             c, t, <<"No access token available for folder initialization">>)
    ELSE findOrCreateFolder_search(c, t, 1)

\* ---- listFiles, up to the enumeration
listFiles_onValidate(c, t) ==
    IF c.docsFolderId = Null THEN initializeFolderStructure_start(c, t)
    ELSE listFiles_enumerate(c, t)

listFiles_start(c, t) ==
    IF c.accessToken = Null THEN Reject(c, t, <<"No access token available">>)
    ELSE Suspend(c, t, "validate",
                 Sent(c, "validate", Null, Null, Null, Null), NoLocals)

\* ---- updateMetadata
updateMetadata_reject(c, t, err) ==
    Reject(c, t, <<"Failed to update metadata">> \o err)

\* mutant: the provider keeps one object per name, the new one
updateMetadata_onCreate_Replaces(c, t) ==
    IF t.req.parent = Null
    THEN updateMetadata_reject(c, t, <<"Failed to update metadata: status">>)
    ELSE
    Resolve(Create([c EXCEPT !.drive =
                       SelectSeq(@, LAMBDA o : o.name # t.req.name)],
                   SidecarFile(t.arg.fileId, t.req.parent,
                               t.x.updatedMetadata)),
            t, TRUE)

updateMetadata_onCreate(c, t) ==
    IF t.req.parent = Null
    THEN updateMetadata_reject(c, t, <<"Failed to update metadata: status">>)
    ELSE
    Resolve(Create(c, SidecarFile(t.arg.fileId, t.req.parent,
                                  t.x.updatedMetadata)),
            t, TRUE)

\* the POST of the new sidecar: fetch, whatever the token is
updateMetadata_create(c, t, x) ==
    Suspend(c, t, "create",
            Sent(c, "uploadSidecar", t.arg.fileId, Null,
                 MetadataFileName(t.arg.fileId), c.metadataFolderId),
            x)

updateMetadata_onDelete(c, t) ==
    IF ~Exists(c.drive, t.req.id)
    THEN updateMetadata_reject(c, t, <<"Google Drive API error">>)
    ELSE updateMetadata_create([c EXCEPT !.drive = Remove(@, t.req.id)],
                               t, t.x)

updateMetadata_onSearch(c, t) ==
    LET found == Search(c.drive, t.req.name, t.req.parent)
    IN  IF t.req.parent = Null
        THEN updateMetadata_reject(c, t, <<"Google Drive API error">>)
        ELSE IF Len(found) = 0 THEN updateMetadata_create(c, t, t.x)
        ELSE IF c.accessToken = Null
        THEN updateMetadata_reject(c, t, <<"No access token available">>)
        ELSE Suspend(c, t, "delete",
                     Sent(c, "deleteSidecar", t.arg.fileId, found[1].id,
                          Null, Null),
                     [t.x EXCEPT !.oldMetadataFileId = found[1].id])

\* the merge, and the search for the old sidecar
updateMetadata_merge(c, t, existingMetadata) ==
    IF c.accessToken = Null
    THEN updateMetadata_reject(c, t, <<"No access token available">>)
    ELSE Suspend(c, t, "search",
                 Sent(c, "searchSidecar", t.arg.fileId, Null,
                      MetadataFileName(t.arg.fileId), c.metadataFolderId),
                 [updatedMetadata |->
                      Spread(Spread(existingMetadata, t.arg.metadata),
                             [modifiedTime |-> toISOString(c.now)]),
                  oldMetadataFileId |-> Null])

\* the PATCH was answered: with the new name, or with an error that the
\* inner catch drops
updateMetadata_onRename(c, t) ==
    updateMetadata_merge(
        IF Exists(c.drive, t.req.id)
        THEN [c EXCEPT !.drive = Renamed(@, t.req.id,
                                         PlainName(t.arg.metadata.name))]
        ELSE c,
        t, t.x.existingMetadata)

updateMetadata_name(c, t, existingMetadata) ==
    IF /\ Truthy(Get(t.arg.metadata, "name"))
       /\ t.arg.metadata.name # Get(existingMetadata, "name")
       /\ c.accessToken # Null
    THEN Suspend(c, t, "rename",
                 Sent(c, "patchName", t.arg.fileId, t.arg.fileId, Null, Null),
                 [existingMetadata |-> existingMetadata])
    ELSE updateMetadata_merge(c, t, existingMetadata)

updateMetadata_onGetDownload(c, t) ==
    IF ~Exists(c.drive, t.req.id)
    THEN updateMetadata_reject(c, t, <<"Failed to get file metadata",
                                       "Google Drive API error">>)
    ELSE updateMetadata_name(c, t,
                             ResponseJson(Object(c.drive, t.req.id).body))

updateMetadata_onGetSearch(c, t) ==
    LET found == Search(c.drive, t.req.name, t.req.parent)
    IN  IF Len(found) = 0
        THEN updateMetadata_reject(c, t, <<"File metadata not found">>)
        ELSE IF c.accessToken = Null
        THEN updateMetadata_reject(c, t, <<"Failed to get file metadata",
                                           "No access token available">>)
        ELSE Suspend(c, t, "getDownload",
                     Sent(c, "downloadSidecar", t.arg.fileId, found[1].id,
                          Null, Null),
                     NoLocals)

updateMetadata_start(c, t) ==
    IF c.metadataFolderId = Null
    THEN updateMetadata_reject(c, t, <<"Metadata folder not initialized">>)
    ELSE IF c.accessToken = Null
    THEN updateMetadata_reject(c, t, <<"Failed to get file metadata",
                                       "No access token available">>)
    ELSE Suspend(c, t, "getSearch",
                 Sent(c, "searchSidecar", t.arg.fileId, Null,
                      MetadataFileName(t.arg.fileId), c.metadataFolderId),
                 NoLocals)

\* the response to t.req is delivered and t runs on
Resume(c, t) ==
    CASE t.at = "folderSearch" -> findOrCreateFolder_onSearch(c, t)
      [] t.at = "folderCreate" -> findOrCreateFolder_onCreate(c, t)
      [] t.at = "validate" -> listFiles_onValidate(c, t)
      [] t.at = "enumerate" -> listFiles_onEnumerate(c, t)
      [] t.at = "sidecarSearch" -> listFiles_onSidecarSearch(c, t)
      [] t.at = "sidecarDownload" -> listFiles_onSidecarDownload(c, t)
      [] t.at = "getSearch" -> updateMetadata_onGetSearch(c, t)
      [] t.at = "getDownload" -> updateMetadata_onGetDownload(c, t)
      [] t.at = "rename" -> updateMetadata_onRename(c, t)
      [] t.at = "search" -> updateMetadata_onSearch(c, t)
      [] t.at = "delete" -> updateMetadata_onDelete(c, t)
      [] t.at = "create" -> updateMetadata_onCreate(c, t)

\* ---- the actions of overlapping calls
Quiet == \A i \in 1..Len(inFlight) : inFlight[i].at = "done"

\* a call starts: it runs to its first await
Begin(r) ==
    /\ last = Idle
    /\ Len(inFlight) < MaxCalls
    /\ inFlight' = Append(inFlight, r.t)
    /\ UNCHANGED <<drive, nextId, now, accessToken, rootFolderId,
                   docsFolderId, metadataFolderId, settingsFolderId, last,
                   prevInit, justUploaded, auth>>

BeginInitializeFolderStructure ==
    Begin(initializeFolderStructure_start(
              Enter({}), NewCall("initializeFolderStructure", Null)))

BeginListFiles ==
    \E links \in BOOLEAN :
        Begin(listFiles_start(Enter({}), NewCall("listFiles", links)))

BeginUpdateMetadata ==
    \E fileId \in FileIdInputs, metadata \in UpdateFields :
        Begin(updateMetadata_start(
                  Enter({}),
                  NewCall("updateMetadata",
                          [fileId |-> fileId, metadata |-> metadata])))

\* the call i has run from one await to the next, or to its end
Land(i, r) ==
    /\ r.c.nextId <= MaxIds + 2
    /\ drive' = r.c.drive
    /\ nextId' = r.c.nextId
    /\ rootFolderId' = r.c.rootFolderId
    /\ docsFolderId' = r.c.docsFolderId
    /\ metadataFolderId' = r.c.metadataFolderId
    /\ settingsFolderId' = r.c.settingsFolderId
    /\ inFlight' = [inFlight EXCEPT ![i] = r.t]
    /\ UNCHANGED <<now, accessToken, last, prevInit, justUploaded, auth>>

DeliverResponse ==
    \E i \in 1..Len(inFlight) :
        /\ inFlight[i].at # "done"
        /\ Land(i, Resume(Enter({}), inFlight[i]))

\* an uploadFile that no other call overlaps has run to the context c
StoreAlone(c) ==
    /\ ~Failed(c)
    /\ c.nextId <= MaxIds + 2
    /\ drive' = c.drive
    /\ nextId' = c.nextId
    /\ rootFolderId' = c.rootFolderId
    /\ docsFolderId' = c.docsFolderId
    /\ metadataFolderId' = c.metadataFolderId
    /\ settingsFolderId' = c.settingsFolderId
    /\ UNCHANGED <<now, accessToken, last, prevInit, justUploaded, auth,
                   inFlight>>

UploadAlone ==
    /\ last = Idle
    /\ Quiet
    /\ \E file \in UploadFiles, metadata \in UploadMetadata :
           StoreAlone(uploadFile(NoFaults, file, metadata))

NextOverlap ==
    \/ SetAccessToken
    \/ ClearAccessToken
    \/ UploadAlone
    \/ BeginInitializeFolderStructure
    \/ BeginListFiles
    \/ BeginUpdateMetadata
    \/ DeliverResponse

SpecOverlap == Init /\ [][NextOverlap]_vars

(***************************************************************************)
(* C29  In every state reached with calls let to overlap, clearAccessToken *)
(* free to run while an initializeFolderStructure awaits a response: when  *)
(* the service holds no access token, its four folder identifiers are      *)
(* null.                                                                   *)
(***************************************************************************)
C29_NoTokenNoFolderIds ==
    accessToken = Null =>
        /\ rootFolderId = Null
        /\ docsFolderId = Null
        /\ metadataFolderId = Null
        /\ settingsFolderId = Null

\* the call t is an updateMetadata of the file f
Updating(t, f) == t.op = "updateMetadata" /\ t.arg.fileId = f
\* the records a listFiles in flight has collected so far
Collected(t) == IF t.at = "done" THEN t.ret.value ELSE t.x.files
\* the records among them that are for the content file f
RecordsFor(t, f) ==
    { k \in 1..Len(Collected(t)) : Collected(t)[k].fileUrl.id = f }

(***************************************************************************)
(* C27  When the answer to a listFiles' sidecar search for the file f is   *)
(* delivered while an updateMetadata(f) has deleted the old sidecar and    *)
(* awaits the creation of the new one, no sidecar of f being stored: the   *)
(* listFiles does not throw, and it has collected exactly one record for   *)
(* f, the fallback record made of the attributes it enumerated.            *)
(***************************************************************************)
C27_ListInTheGapGivesFallback ==
    [][\A i, j \in 1..Len(inFlight) :
         (/\ inFlight[i].op = "listFiles"
          /\ inFlight[i].at = "sidecarSearch"
          /\ inFlight[j].at = "create"
          /\ Updating(inFlight[j], inFlight[i].req.of)
          /\ SidecarsOf(inFlight[i].req.of) = <<>>
          /\ \/ inFlight'[i].at # "sidecarSearch"
             \/ inFlight'[i].req.of # inFlight[i].req.of) =>
             /\ ~inFlight'[i].threw
             /\ Cardinality(RecordsFor(inFlight'[i], inFlight[i].req.of)) = 1
             /\ \A k \in RecordsFor(inFlight'[i], inFlight[i].req.of) :
                    Collected(inFlight'[i])[k] =
                        fallbackMetadata(Head(inFlight[i].x.responseFiles))
      ]_vars

\* a listFiles has collected the fallback record of a file whose update is
\* between the delete of the old sidecar and the creation of the new one
C27_Witness ==
    \E i, j \in 1..Len(inFlight) :
        /\ inFlight[i].op = "listFiles"
        /\ inFlight[i].at = "done"
        /\ ~inFlight[i].threw
        /\ inFlight[j].op = "updateMetadata"
        /\ inFlight[j].at = "create"
        /\ inFlight[j].x.oldMetadataFileId # Null
        /\ SidecarsOf(inFlight[j].arg.fileId) = <<>>
        /\ \E k \in RecordsFor(inFlight[i], inFlight[j].arg.fileId) :
               /\ Collected(inFlight[i])[k].category = "others"
               /\ Collected(inFlight[i])[k].id = inFlight[j].arg.fileId

(***************************************************************************)
(* C28  Two updateMetadata calls on one file f, no third one, have both    *)
(* returned true, one having deleted the old sidecar and the other having  *)
(* found none to delete: the store then holds two objects named            *)
(* '<f>_metadata.json'.  (The witness shows that this state is reached.)   *)
(***************************************************************************)
BothUpdated(i, j) ==
    /\ i # j
    /\ inFlight[i].op = "updateMetadata"
    /\ Updating(inFlight[j], inFlight[i].arg.fileId)
    /\ inFlight[i].at = "done" /\ ~inFlight[i].threw
    /\ inFlight[j].at = "done" /\ ~inFlight[j].threw
    /\ inFlight[i].ret.value = TRUE
    /\ inFlight[j].ret.value = TRUE
    /\ inFlight[i].x.oldMetadataFileId # Null
    /\ inFlight[j].x.oldMetadataFileId = Null
    /\ \A k \in 1..Len(inFlight) \ {i, j} :
           ~Updating(inFlight[k], inFlight[i].arg.fileId)

C28_OverlappingUpdatesLeaveTwoSidecars ==
    \A i, j \in 1..Len(inFlight) :
        BothUpdated(i, j) => Len(SidecarsOf(inFlight[i].arg.fileId)) = 2

C28_Witness ==
    \E i, j \in 1..Len(inFlight) :
        /\ BothUpdated(i, j)
        /\ Len(SidecarsOf(inFlight[i].arg.fileId)) = 2
        /\ \A k \in 1..Len(SidecarsOf(inFlight[i].arg.fileId)) :
               SidecarsOf(inFlight[i].arg.fileId)[k].parent = metadataFolderId

====
